---- MODULE Spec2Model ----
(***************************************************************************)
(* Model of pymap3d/ellipsoid.py: the class Ellipsoid, whose constructor   *)
(* looks a model name up in a dict literal of reference ellipsoids and     *)
(* stores the two axes together with three derived floats.                 *)
(*                                                                         *)
(* Python floats are IEEE-754 binary64 numbers.  They are modelled bit for *)
(* bit: a float is a sign, a 53 bit mantissa and a binary exponent, and    *)
(* the float operations of the constructor (conversion of the literals,    *)
(* -, +, /, * and sqrt) round to nearest, ties to even, as the hardware    *)
(* does; ** goes through pow() of the C library and may round either way.  *)
(* The mantissas do not fit the 32 bit integers of TLC, so naturals are    *)
(* kept as little-endian sequences of 15 bit limbs.                        *)
(*                                                                         *)
(* The state is the history of the constructor calls of one run: what each *)
(* was given and what it produced, an object or an exception.              *)
(***************************************************************************)
EXTENDS Integers, Sequences, FiniteSets, TLC

(***************************************************************************)
(* Arbitrary-size naturals: <<>> is 0, the last limb is never 0.           *)
(***************************************************************************)
LimbBits == 15

RECURSIVE Pow2(_)
Pow2(k) == IF k = 0 THEN 1 ELSE 2 * Pow2(k - 1)

Base == Pow2(LimbBits)

MaxOf(i, j) == IF i >= j THEN i ELSE j

RECURSIVE Trim(_)
Trim(x) ==
    IF Len(x) = 0 THEN <<>>
    ELSE IF x[Len(x)] = 0 THEN Trim(SubSeq(x, 1, Len(x) - 1))
    ELSE x

\* n is a TLC integer, 0 <= n < 2^31
FromInt(n) == Trim(<<n % Base, (n \div Base) % Base, n \div (Base * Base)>>)

Limb(x, i) == IF i <= Len(x) THEN x[i] ELSE 0

RECURSIVE SmallBitLen(_)
SmallBitLen(n) == IF n = 0 THEN 0 ELSE 1 + SmallBitLen(n \div 2)

BitLen(x) ==
    IF Len(x) = 0 THEN 0 ELSE LimbBits * (Len(x) - 1) + SmallBitLen(x[Len(x)])

\* bit i of x, bit 0 the least significant
Bit(x, i) == (Limb(x, (i \div LimbBits) + 1) \div Pow2(i % LimbBits)) % 2

RECURSIVE CmpFrom(_, _, _)
CmpFrom(x, y, i) ==
    IF i = 0 THEN 0
    ELSE IF Limb(x, i) > Limb(y, i) THEN 1
    ELSE IF Limb(x, i) < Limb(y, i) THEN -1
    ELSE CmpFrom(x, y, i - 1)

\* -1, 0 or 1 as x < y, x = y or x > y
Cmp(x, y) == CmpFrom(x, y, MaxOf(Len(x), Len(y)))

RECURSIVE AddFrom(_, _, _, _, _)
AddFrom(x, y, i, c, acc) ==
    IF i > MaxOf(Len(x), Len(y))
    THEN IF c = 0 THEN acc ELSE Append(acc, c)
    ELSE LET s == Limb(x, i) + Limb(y, i) + c
         IN  AddFrom(x, y, i + 1, s \div Base, Append(acc, s % Base))

AddN(x, y) == Trim(AddFrom(x, y, 1, 0, <<>>))

RECURSIVE SubFrom(_, _, _, _, _)
SubFrom(x, y, i, c, acc) ==
    IF i > Len(x) THEN acc
    ELSE LET d == Limb(x, i) - Limb(y, i) - c
         IN  IF d < 0 THEN SubFrom(x, y, i + 1, 1, Append(acc, d + Base))
             ELSE SubFrom(x, y, i + 1, 0, Append(acc, d))

\* x - y, for x >= y
SubN(x, y) == Trim(SubFrom(x, y, 1, 0, <<>>))

RECURSIVE MulSmallFrom(_, _, _, _, _)
MulSmallFrom(x, d, i, c, acc) ==
    IF i > Len(x)
    THEN IF c = 0 THEN acc ELSE Append(acc, c)
    ELSE LET p == x[i] * d + c
         IN  MulSmallFrom(x, d, i + 1, p \div Base, Append(acc, p % Base))

\* x * d, for a limb 0 <= d < Base
MulSmall(x, d) == Trim(MulSmallFrom(x, d, 1, 0, <<>>))

ShlLimbs(x, q) == IF Len(x) = 0 THEN <<>> ELSE [i \in 1..q |-> 0] \o x

\* x * 2^k
Shl(x, k) == ShlLimbs(MulSmall(x, Pow2(k % LimbBits)), k \div LimbBits)

\* x \div 2^k
Shr(x, k) ==
    LET q == k \div LimbBits
        r == k % LimbBits
        y == IF q >= Len(x) THEN <<>> ELSE SubSeq(x, q + 1, Len(x))
    IN  Trim([i \in 1..Len(y) |->
                (y[i] \div Pow2(r)) + (Limb(y, i + 1) % Pow2(r)) * Pow2(LimbBits - r)])

RECURSIVE MulFrom(_, _, _, _)
MulFrom(x, y, i, acc) ==
    IF i > Len(x) THEN acc
    ELSE MulFrom(x, y, i + 1, AddN(acc, ShlLimbs(MulSmall(y, x[i]), i - 1)))

MulN(x, y) == MulFrom(x, y, 1, <<>>)

RECURSIVE QuoLimb(_, _, _, _)
QuoLimb(r, d, j, q) ==
    IF j < 0 THEN q
    ELSE LET c == q + Pow2(j)
         IN  IF Cmp(MulSmall(d, c), r) <= 0 THEN QuoLimb(r, d, j - 1, c)
             ELSE QuoLimb(r, d, j - 1, q)

\* e, once v is evaluated: keeps the accumulators of the recursions below
\* evaluated step by step rather than as one nested expression at the end
Force(v, e) == IF v = v THEN e ELSE e

RECURSIVE DivStep(_, _, _, _)
DivStep(n, d, i, st) ==
    IF i = 0 THEN [quo |-> Trim(st.quo), rem |-> st.rem]
    ELSE LET r2 == AddN(ShlLimbs(st.rem, 1), FromInt(n[i]))
             q == QuoLimb(r2, d, LimbBits - 1, 0)
             st2 == [quo |-> <<q>> \o st.quo, rem |-> SubN(r2, MulSmall(d, q))]
         IN  Force(st2, DivStep(n, d, i - 1, st2))

\* quotient and remainder of n by d # 0, by long division, a limb of the
\* quotient at a time, each limb found by bisection
DivMod(n, d) == Force(<<n, d>>, DivStep(n, d, Len(n), [quo |-> <<>>, rem |-> <<>>]))

RECURSIVE SqrtStep(_, _)
SqrtStep(n, x) ==
    LET y == Shr(AddN(x, DivMod(n, x).quo), 1)
    IN  IF Cmp(y, x) >= 0 THEN x ELSE SqrtStep(n, y)

\* the largest r with r * r <= n, by Newton's iteration from above
ISqrt(n) == IF Len(n) = 0 THEN <<>> ELSE SqrtStep(n, Shl(<<1>>, (BitLen(n) + 1) \div 2))

(***************************************************************************)
(* IEEE-754 binary64.  A float is [sgn, man, exp] and stands for           *)
(* (-1)^sgn * man * 2^exp; man is <<>> for zero and has exactly Precision  *)
(* bits otherwise.  The exponent range is not modelled: every value the    *)
(* constructor computes lies between 2^-40 and 2^30, far from overflow     *)
(* and from the subnormals.  Python raises on the operations that would    *)
(* give an infinity or a NaN here (division by zero, sqrt of a negative),  *)
(* and those are modelled as the exceptions they raise.                    *)
(***************************************************************************)
Precision == 53

Zero == [sgn |-> 0, man |-> <<>>, exp |-> 0]

IsZero(x) == Len(x.man) = 0

\* (-1)^sgn * N * 2^e rounded to Precision bits: "nearest" is round to
\* nearest, ties to even; "down" and "up" are the neighbours of the exact
\* value towards and away from zero.
Round(sgn, N, e, mode) ==
    LET L == BitLen(N)
    IN  IF L = 0 THEN Zero
        ELSE IF L <= Precision
        THEN [sgn |-> sgn, man |-> Shl(N, Precision - L), exp |-> e - (Precision - L)]
        ELSE LET sh == L - Precision
                 q == Shr(N, sh)
                 rem == SubN(N, Shl(q, sh))
                 c == Cmp(rem, Shl(<<1>>, sh - 1))
                 up == IF mode = "nearest" THEN c > 0 \/ (c = 0 /\ Bit(q, 0) = 1)
                       ELSE IF mode = "up" THEN Len(rem) > 0
                       ELSE FALSE
                 q2 == IF up THEN AddN(q, <<1>>) ELSE q
             IN  IF BitLen(q2) > Precision
                 THEN [sgn |-> sgn, man |-> Shr(q2, 1), exp |-> e + sh + 1]
                 ELSE [sgn |-> sgn, man |-> q2, exp |-> e + sh]

\* the quotient n / d as an integer N and exponent e with n / d within
\* N * 2^e and (N + 1) * 2^e, N odd when the division is inexact (a sticky
\* bit), and N of more than Precision + 2 bits, so that Round sees the
\* exact position of n / d between two floats
Quotient(n, d) ==
    LET k == MaxOf(0, Precision + 3 + BitLen(d) - BitLen(n))
        dm == DivMod(Shl(n, k), d)
        sticky == IF Len(dm.rem) = 0 THEN 0 ELSE 1
    IN  [N |-> AddN(Shl(dm.quo, 1), FromInt(sticky)), e |-> 0 - k - 1]

RECURSIVE Pow10(_)
Pow10(k) == IF k = 0 THEN 1 ELSE 10 * Pow10(k - 1)

\* A decimal literal of the source text, int.frac with frac written in
\* `digits` digits: 6356863.019 is Decimal(6356863, 19, 3).
Decimal(int, frac, digits) == [int |-> int, frac |-> frac, digits |-> digits]

\* The float a decimal literal denotes: Python converts a literal to the
\* nearest float.
Float(lit) ==
    LET D == FromInt(Pow10(lit.digits))
        N == AddN(MulN(FromInt(lit.int), D), FromInt(lit.frac))
        qt == Quotient(N, D)
    IN  IF Len(N) = 0 THEN Zero ELSE Round(0, qt.N, qt.e, "nearest")

FloatNeg(x) == IF IsZero(x) THEN x ELSE [x EXCEPT !.sgn = 1 - x.sgn]

FloatAdd(x, y) ==
    IF IsZero(x) THEN y
    ELSE IF IsZero(y) THEN x
    ELSE LET e == IF x.exp <= y.exp THEN x.exp ELSE y.exp
             X == Shl(x.man, x.exp - e)
             Y == Shl(y.man, y.exp - e)
         IN  IF x.sgn = y.sgn THEN Round(x.sgn, AddN(X, Y), e, "nearest")
             ELSE IF Cmp(X, Y) >= 0 THEN Round(x.sgn, SubN(X, Y), e, "nearest")
             ELSE Round(y.sgn, SubN(Y, X), e, "nearest")

FloatSub(x, y) == FloatAdd(x, FloatNeg(y))

FloatMul(x, y) ==
    Round((x.sgn + y.sgn) % 2, MulN(x.man, y.man), x.exp + y.exp, "nearest")

\* x / y for y # 0
FloatDiv(x, y) ==
    IF IsZero(x) THEN Zero
    ELSE LET qt == Quotient(x.man, y.man)
         IN  Round((x.sgn + y.sgn) % 2, qt.N, qt.e + x.exp - y.exp, "nearest")

\* x ** 2.  float.__pow__ calls pow() of the C library, which is accurate
\* to less than one unit in the last place but need not round to nearest:
\* the result is the exact square when that is a float, and otherwise one
\* of its two neighbours, which one being a property of the platform
\* (rounding: "nearest", "down" or "up").
FloatSquare(x, rounding) == Round(0, MulN(x.man, x.man), 2 * x.exp, rounding)

\* sqrt(x) for x >= 0, correctly rounded as IEEE-754 requires
FloatSqrt(x) ==
    IF IsZero(x) THEN Zero
    ELSE LET k == IF (x.exp - (Precision + 3)) % 2 = 0 THEN Precision + 3
                  ELSE Precision + 4
             M == Shl(x.man, k)
             r == ISqrt(M)
             sticky == IF Cmp(MulN(r, r), M) = 0 THEN 0 ELSE 1
         IN  Round(0, AddN(Shl(r, 1), FromInt(sticky)), ((x.exp - k) \div 2) - 1,
                   "nearest")

\* The order of floats, for the properties below: -1, 0 or 1 as x < y,
\* x = y or x > y
FloatCmp(x, y) ==
    LET Sign(z) == IF IsZero(z) THEN 0 ELSE IF z.sgn = 0 THEN 1 ELSE -1
        Mag == IF x.exp > y.exp THEN 1
               ELSE IF x.exp < y.exp THEN -1
               ELSE Cmp(x.man, y.man)
    IN  IF Sign(x) # Sign(y) THEN (IF Sign(x) > Sign(y) THEN 1 ELSE -1)
        ELSE IF Sign(x) = 0 THEN 0
        ELSE Sign(x) * Mag

FloatLt(x, y) == FloatCmp(x, y) < 0
FloatLe(x, y) == FloatCmp(x, y) <= 0

\* the float of a Python int 0 <= n < 2^31
IntToFloat(n) == Round(0, FromInt(n), 0, "nearest")

(***************************************************************************)
(* The dict literal `models` of Ellipsoid.__init__, as the source text has *)
(* it.  TLA+ strings are ASCII: the Cyrillic letters of two display names  *)
(* are written as their \uXXXX escapes.                                    *)
(***************************************************************************)
\* Entry with the two axis columns exchanged
EntrySwapped(key, name, a, b) == key :> [name |-> name, a |-> b, b |-> a]

\* 'key': {'name': name, 'a': a, 'b': b}
Entry(key, name, a, b) == key :> [name |-> name, a |-> a, b |-> b]

literals ==
    Entry("maupertuis", "Maupertuis (1738)", Decimal(6397300, 0, 1), Decimal(6363806, 283, 3)) @@
    Entry("plessis", "Plessis (1817)", Decimal(6376523, 0, 1), Decimal(6355862, 9333, 4)) @@
    Entry("everest1830", "Everest (1830)", Decimal(6377299, 365, 3), Decimal(6356098, 359, 3)) @@
    Entry("everest1830m", "Everest 1830 Modified (1967)", Decimal(6377304, 63, 3), Decimal(6356103, 39, 3)) @@
    Entry("everest1967", "Everest 1830 (1967 Definition)", Decimal(6377298, 556, 3), Decimal(6356097, 55, 2)) @@
    Entry("airy", "Airy (1830)", Decimal(6377563, 396, 3), Decimal(6356256, 909, 3)) @@
    Entry("bessel", "Bessel (1841)", Decimal(6377397, 155, 3), Decimal(6356078, 963, 3)) @@
    Entry("clarke1866", "Clarke (1866)", Decimal(6378206, 4, 1), Decimal(6356583, 8, 1)) @@
    Entry("clarke1878", "Clarke (1878)", Decimal(6378190, 0, 1), Decimal(6356456, 0, 1)) @@
    Entry("clarke1860", "Clarke (1880)", Decimal(6378249, 145, 3), Decimal(6356514, 87, 2)) @@
    Entry("helmert", "Helmert (1906)", Decimal(6378200, 0, 1), Decimal(6356818, 17, 2)) @@
    Entry("hayford", "Hayford (1910)", Decimal(6378388, 0, 1), Decimal(6356911, 946, 3)) @@
    Entry("international1924", "International (1924)", Decimal(6378388, 0, 1), Decimal(6356911, 946, 3)) @@
    Entry("krassovsky1940", "Krassovsky (1940)", Decimal(6378245, 0, 1), Decimal(6356863, 19, 3)) @@
    Entry("wgs66", "WGS66 (1966)", Decimal(6378145, 0, 1), Decimal(6356759, 769, 3)) @@
    Entry("australian", "Australian National (1966)", Decimal(6378160, 0, 1), Decimal(6356774, 719, 3)) @@
    Entry("international1967", "New International (1967)", Decimal(6378157, 5, 1), Decimal(6356772, 2, 1)) @@
    Entry("grs67", "GRS-67 (1967)", Decimal(6378160, 0, 1), Decimal(6356774, 516, 3)) @@
    Entry("sa1969", "South American (1969)", Decimal(6378160, 0, 1), Decimal(6356774, 719, 3)) @@
    Entry("wgs72", "WGS-72 (1972)", Decimal(6378135, 0, 1), Decimal(6356750, 52001609, 8)) @@
    Entry("grs80", "GRS-80 (1979)", Decimal(6378137, 0, 1), Decimal(6356752, 31414036, 8)) @@
    Entry("wgs84", "WGS-84 (1984)", Decimal(6378137, 0, 1), Decimal(6356752, 31424518, 8)) @@
    Entry("iers1989", "IERS (1989)", Decimal(6378136, 0, 1), Decimal(6356751, 302, 3)) @@
    Entry("pz90.11", "\\u041f\\u0417-90 (2011)", Decimal(6378136, 0, 1), Decimal(6356751, 3618, 4)) @@
    Entry("iers2003", "IERS (2003)", Decimal(6378136, 6, 1), Decimal(6356751, 9, 1)) @@
    Entry("gsk2011", "\\u0413\\u0421\\u041a (2011)", Decimal(6378136, 5, 1), Decimal(6356751, 758, 3)) @@
    Entry("mercury", "Mercury", Decimal(2440500, 0, 1), Decimal(2438300, 0, 1)) @@
    Entry("venus", "Venus", Decimal(6051800, 0, 1), Decimal(6051800, 0, 1)) @@
    Entry("moon", "Moon", Decimal(1738100, 0, 1), Decimal(1736000, 0, 1)) @@
    Entry("mars", "Mars", Decimal(3396900, 0, 1), Decimal(3376097, 80585952, 8)) @@
    Entry("jupyter", "Jupiter", Decimal(71492000, 0, 1), Decimal(66770054, 3475922, 7)) @@
    Entry("io", "Io", Decimal(1829, 7, 1), Decimal(1815, 8, 1)) @@
    Entry("saturn", "Saturn", Decimal(60268000, 0, 1), Decimal(54364301, 5271271, 7)) @@
    Entry("uranus", "Uranus", Decimal(25559000, 0, 1), Decimal(24973000, 0, 1)) @@
    Entry("neptune", "Neptune", Decimal(24764000, 0, 1), Decimal(24341000, 0, 1)) @@
    Entry("pluto", "Pluto", Decimal(1188000, 0, 1), Decimal(1188000, 0, 1))


\* the dict the literal evaluates to: Python converts each decimal of the
\* source text to the nearest float
models ==
    [key \in DOMAIN literals |->
        [name |-> literals[key].name,
         a |-> Float(literals[key].a),
         b |-> Float(literals[key].b)]]

(***************************************************************************)
(* Ellipsoid.__init__                                                      *)
(***************************************************************************)
\* DefaultModel naming another ellipsoid
DefaultModelGrs80 == "grs80"

\* def __init__(self, model: str = "wgs84")
DefaultModel == "wgs84"

\* raise NotImplementedError(f"{model} model not implemented, ...")
NotImplementedError(model) ==
    [kind |-> "NotImplementedError",
     message |-> model \o " model not implemented, let us know and we will add it (or make a pull request)"]

\* float division by zero raises
ZeroDivisionError == [kind |-> "ZeroDivisionError", message |-> "float division by zero"]

\* math.sqrt of a negative float raises
ValueError == [kind |-> "ValueError", message |-> "math domain error"]

\* flattening with the operands of the subtraction exchanged
flatteningReversed(semimajor_axis, semiminor_axis) ==
    FloatDiv(FloatSub(semiminor_axis, semimajor_axis), semimajor_axis)

\* flattening without the parentheses: a - b / a
flatteningNoParens(semimajor_axis, semiminor_axis) ==
    FloatSub(semimajor_axis, FloatDiv(semiminor_axis, semimajor_axis))

\* (self.semimajor_axis - self.semiminor_axis) / self.semimajor_axis
flattening(semimajor_axis, semiminor_axis) ==
    FloatDiv(FloatSub(semimajor_axis, semiminor_axis), semimajor_axis)

\* (self.semimajor_axis - self.semiminor_axis) / (self.semimajor_axis + self.semiminor_axis)
thirdflattening(semimajor_axis, semiminor_axis) ==
    FloatDiv(FloatSub(semimajor_axis, semiminor_axis),
             FloatAdd(semimajor_axis, semiminor_axis))

\* radicand with f * 2 for f ** 2
radicandTimes2(f, rounding) ==
    FloatSub(FloatMul(IntToFloat(2), f), FloatMul(f, IntToFloat(2)))

\* 2 * self.flattening - self.flattening**2, the argument of sqrt
radicand(f, rounding) ==
    FloatSub(FloatMul(IntToFloat(2), f), FloatSquare(f, rounding))

\* attributes reading the name and the axes of the default model's record
attributesOfDefault(model, table, rounding) ==
    LET semimajor_axis == table[DefaultModel].a
        semiminor_axis == table[DefaultModel].b
        f == flattening(semimajor_axis, semiminor_axis)
    IN  [kind |-> "Ellipsoid",
         model |-> model,
         name |-> table[DefaultModel].name,
         semimajor_axis |-> semimajor_axis,
         semiminor_axis |-> semiminor_axis,
         flattening |-> f,
         thirdflattening |-> thirdflattening(semimajor_axis, semiminor_axis),
         eccentricity |-> FloatSqrt(radicand(f, rounding))]

\* attributes with semiminor_axis read from 'a'
attributesMinorFromA(model, table, rounding) ==
    LET semimajor_axis == table[model].a
        semiminor_axis == table[model].a
        f == flattening(semimajor_axis, semiminor_axis)
    IN  [kind |-> "Ellipsoid",
         model |-> model,
         name |-> table[model].name,
         semimajor_axis |-> semimajor_axis,
         semiminor_axis |-> semiminor_axis,
         flattening |-> f,
         thirdflattening |-> thirdflattening(semimajor_axis, semiminor_axis),
         eccentricity |-> FloatSqrt(radicand(f, rounding))]

\* The assignments of __init__ for a model that is a key of table: the
\* attributes of the new object, or the exception an arithmetic step raises.
attributes(model, table, rounding) ==
    LET semimajor_axis == table[model].a
        semiminor_axis == table[model].b
    IN  IF IsZero(semimajor_axis) \/ IsZero(FloatAdd(semimajor_axis, semiminor_axis))
        THEN ZeroDivisionError
        ELSE LET f == flattening(semimajor_axis, semiminor_axis)
                 r == radicand(f, rounding)
             IN  IF r.sgn = 1 THEN ValueError
                 ELSE [kind |-> "Ellipsoid",
                       model |-> model,
                       name |-> table[model].name,
                       semimajor_axis |-> semimajor_axis,
                       semiminor_axis |-> semiminor_axis,
                       flattening |-> f,
                       thirdflattening |-> thirdflattening(semimajor_axis, semiminor_axis),
                       eccentricity |-> FloatSqrt(r)]

\* how pow() of the platform rounds an inexact square
Roundings == {"nearest", "down", "up"}

\* attributes(...) of every key of models, computed once: __init__ is a
\* function of its argument and of the dict literal alone
Built == [rounding \in Roundings |->
            [model \in DOMAIN models |-> attributes(model, models, rounding)]]

\* the arguments tried: every key of models, and names that are no key
Unregistered == {"not-a-real-model", "WGS84", "jupiter", ""}
Arguments == {<<>>} \cup {<<model>> : model \in DOMAIN models \cup Unregistered}

\* the number of constructor calls of one run
MaxCalls == 2

VARIABLES
    calls,      \* the constructor calls so far: the arguments and what came of each
    registry,   \* the dict `models` as the latest call built it
    libm        \* how pow() of the platform rounds

vars == <<calls, registry, libm>>

Init ==
    /\ calls = <<>>
    /\ registry = models
    /\ libm \in Roundings

\* the constructor matching the name without regard to case (of the names
\* in Arguments only "WGS84" has capitals)
__init__lower(args) ==
    LET given == IF Len(args) = 0 THEN DefaultModel ELSE args[1]
        model == IF given = "WGS84" THEN "wgs84" ELSE given
    IN  /\ Len(calls) < MaxCalls
        /\ registry' = models
        /\ calls' = Append(calls,
                [args |-> args,
                 result |-> IF model \notin DOMAIN registry'
                            THEN NotImplementedError(model)
                            ELSE Built[libm][model]])
        /\ UNCHANGED libm

\* the constructor keeping one dict between the calls and taking the record
\* out of it: models.pop(model) for models[model]
__init__pop(args) ==
    LET model == IF Len(args) = 0 THEN DefaultModel ELSE args[1]
    IN  /\ Len(calls) < MaxCalls
        /\ registry' = [key \in DOMAIN registry \ {model} |-> registry[key]]
        /\ calls' = Append(calls,
                [args |-> args,
                 result |-> IF model \notin DOMAIN registry
                            THEN NotImplementedError(model)
                            ELSE Built[libm][model]])
        /\ UNCHANGED libm

\* Ellipsoid(*args): the whole constructor.  It builds the dict, raises
\* for a model that is no key, and otherwise sets the seven attributes.
__init__(args) ==
    LET model == IF Len(args) = 0 THEN DefaultModel ELSE args[1]
    IN  /\ Len(calls) < MaxCalls
        /\ registry' = models
        /\ calls' = Append(calls,
                [args |-> args,
                 result |-> IF model \notin DOMAIN registry'
                            THEN NotImplementedError(model)
                            ELSE Built[libm][model]])
        /\ UNCHANGED libm

Next == \E args \in Arguments : __init__(args)

Spec == Init /\ [][Next]_vars

\* one constructor call on one argument
Single == Len(calls) = 0 /\ Next

SpecSingle == Init /\ [][Single]_vars

(***************************************************************************)
(* Properties                                                              *)
(***************************************************************************)
\* the calls so far that name their model
Named == {i \in 1..Len(calls) : Len(calls[i].args) = 1}

\* the calls so far that name a key of the dict
Registered == {i \in Named : calls[i].args[1] \in DOMAIN literals}

Ok(i) == calls[i].result.kind = "Ellipsoid"

\* C1: a name that is not exactly a key of the dict makes the constructor
\* raise NotImplementedError with the name in its message and nothing else
\* (no attribute is set); a key makes it succeed; there is no third outcome.
UnknownModelRaises ==
    \A i \in Named :
        LET model == calls[i].args[1]
        IN  IF model \in DOMAIN literals
            THEN Ok(i)
            ELSE calls[i].result =
                    [kind |-> "NotImplementedError",
                     message |-> model \o " model not implemented, let us know and we will add it (or make a pull request)"]

UnknownModelRaisesWitness ==
    /\ \E i \in Named :
        calls[i].args[1] = "WGS84" /\ calls[i].result.kind = "NotImplementedError"
    /\ \E i \in Named : calls[i].args[1] = "wgs84" /\ Ok(i)

\* the other bodies the spec and the docstring name
Bodies ==
    {"mercury", "venus", "io", "jupiter", "saturn", "uranus", "neptune", "pluto",
     "moon", "mars"}

\* C2: the constructor succeeds for each of mercury, venus, io, jupiter,
\* saturn, uranus, neptune, pluto, moon and mars.
BodiesAreRegistered ==
    \A i \in Named : calls[i].args[1] \in Bodies => Ok(i)

\* the axes the spec gives verbatim
Required ==
    [model \in {"wgs84", "grs80", "wgs72", "mars", "moon"} |->
        CASE model = "wgs84" -> <<Decimal(6378137, 0, 1), Decimal(6356752, 31424518, 8)>>
          [] model = "grs80" -> <<Decimal(6378137, 0, 1), Decimal(6356752, 31414036, 8)>>
          [] model = "wgs72" -> <<Decimal(6378135, 0, 1), Decimal(6356750, 52001609, 8)>>
          [] model = "mars" -> <<Decimal(3396900, 0, 1), Decimal(3376097, 80585952, 8)>>
          [] model = "moon" -> <<Decimal(1738100, 0, 1), Decimal(1736000, 0, 1)>>]

RequiredFloats ==
    [model \in DOMAIN Required |->
        [a |-> Float(Required[model][1]), b |-> Float(Required[model][2])]]

\* C3: for wgs84, grs80, wgs72, mars and moon the constructor stores exactly
\* the floats of the axes the spec gives, as semimajor_axis and
\* semiminor_axis.
RequiredAxes ==
    \A i \in Named :
        LET model == calls[i].args[1]
        IN  model \in DOMAIN RequiredFloats =>
                /\ Ok(i)
                /\ calls[i].result.semimajor_axis = RequiredFloats[model].a
                /\ calls[i].result.semiminor_axis = RequiredFloats[model].b

RequiredAxesWitness ==
    \E i \in Named : \E j \in Named :
        /\ calls[i].args[1] = "wgs84" /\ Ok(i)
        /\ calls[j].args[1] = "mars" /\ Ok(j)

\* C4: every object built for a key of the dict has
\* semimajor_axis >= semiminor_axis > 0.
AxesOrdered ==
    \A i \in Registered :
        /\ Ok(i)
        /\ FloatLe(calls[i].result.semiminor_axis, calls[i].result.semimajor_axis)
        /\ FloatLt(Zero, calls[i].result.semiminor_axis)

AxesOrderedWitness ==
    /\ \E i \in Registered :
        Ok(i) /\ FloatLt(calls[i].result.semiminor_axis, calls[i].result.semimajor_axis)
    /\ \E i \in Registered :
        Ok(i) /\ calls[i].result.semiminor_axis = calls[i].result.semimajor_axis

One == IntToFloat(1)

\* C5: every key of the dict gives an object (no arithmetic step raises)
\* with 0 <= flattening < 1 and 0 <= eccentricity < 1.
ShapeInUnitInterval ==
    \A i \in Registered :
        /\ Ok(i)
        /\ FloatLe(Zero, calls[i].result.flattening)
        /\ FloatLt(calls[i].result.flattening, One)
        /\ FloatLe(Zero, calls[i].result.eccentricity)
        /\ FloatLt(calls[i].result.eccentricity, One)

ShapeInUnitIntervalWitness ==
    \E i \in Registered :
        /\ Ok(i)
        /\ FloatLt(Zero, calls[i].result.flattening)
        /\ FloatLt(Zero, calls[i].result.eccentricity)

\* C6: a call without argument gives what a call with "wgs84" gives, field
\* by field.
DefaultIsWgs84 ==
    \A i \in 1..Len(calls) : \A j \in 1..Len(calls) :
        calls[i].args = <<>> /\ calls[j].args = <<"wgs84">> =>
            /\ Ok(i)
            /\ calls[i].result = calls[j].result

DefaultIsWgs84Witness ==
    \E i \in 1..Len(calls) : \E j \in 1..Len(calls) :
        calls[i].args = <<>> /\ calls[j].args = <<"wgs84">> /\ Ok(i) /\ Ok(j)

\* C7: venus and pluto are spheres: semimajor_axis = semiminor_axis, and
\* flattening and eccentricity are exactly 0.
SpheresAreRound ==
    \A i \in Named :
        calls[i].args[1] \in {"venus", "pluto"} =>
            /\ Ok(i)
            /\ calls[i].result.semimajor_axis = calls[i].result.semiminor_axis
            /\ IsZero(calls[i].result.flattening)
            /\ IsZero(calls[i].result.eccentricity)

SpheresAreRoundWitness ==
    \E i \in Named : \E j \in Named :
        /\ calls[i].args[1] = "venus" /\ Ok(i)
        /\ calls[j].args[1] = "pluto" /\ Ok(j)

\* C8: the object built for a key has that key as its model, and the name
\* and the axes of the record stored under that key, never another's.
FieldsOfTheRecord ==
    \A i \in Registered :
        LET model == calls[i].args[1]
        IN  /\ Ok(i)
            /\ calls[i].result.model = model
            /\ calls[i].result.name = models[model].name
            /\ calls[i].result.semimajor_axis = models[model].a
            /\ calls[i].result.semiminor_axis = models[model].b

FieldsOfTheRecordWitness ==
    \E i \in Registered : \E j \in Registered :
        /\ Ok(i) /\ Ok(j)
        /\ calls[i].result.name # calls[j].result.name
        /\ calls[i].result.semiminor_axis # calls[j].result.semiminor_axis

\* C9: the derived fields of every object built are what its stored axes
\* a and b give again: flattening is (a - b) / a, thirdflattening is
\* (a - b) / (a + b) and eccentricity is sqrt(2 * flattening - flattening^2).
RoundTrip ==
    \A i \in 1..Len(calls) :
        Ok(i) =>
            LET a == calls[i].result.semimajor_axis
                b == calls[i].result.semiminor_axis
                f == FloatDiv(FloatSub(a, b), a)
            IN  /\ calls[i].result.flattening = f
                /\ calls[i].result.thirdflattening = FloatDiv(FloatSub(a, b), FloatAdd(a, b))
                /\ calls[i].result.eccentricity =
                        FloatSqrt(FloatSub(FloatMul(IntToFloat(2), f), FloatSquare(f, libm)))

RoundTripWitness ==
    \E i \in 1..Len(calls) :
        /\ Ok(i)
        /\ ~IsZero(calls[i].result.flattening)
        /\ ~IsZero(calls[i].result.thirdflattening)
        /\ ~IsZero(calls[i].result.eccentricity)

\* C10: a call changes neither the dict nor what the earlier calls gave, and
\* calls with the same argument give the same outcome, the same object
\* field by field or the same error.
Pure ==
    [][/\ registry' = registry
       /\ \A i \in 1..Len(calls) : Len(calls') >= i /\ calls'[i] = calls[i]
       /\ \A i \in 1..Len(calls') : \A j \in 1..Len(calls') :
            calls'[i].args = calls'[j].args => calls'[i].result = calls'[j].result]_vars

PureWitness ==
    \E i \in 1..Len(calls) : \E j \in 1..Len(calls) :
        i # j /\ calls[i].args = calls[j].args /\ Ok(i) /\ registry = models
====
